---- MODULE Spec2Model ----
(***************************************************************************)
(* Model of the harvest run of src/main.py ("Coletor de Exercicios         *)
(* Resiliente"): one run of the body of the "Iniciar Coleta" button.       *)
(*                                                                         *)
(* Threads: the main (script) thread, identified by Principal, and one     *)
(* logical task per future of the ThreadPoolExecutor, identified by the    *)
(* future's position 1..n in submission order.                             *)
(***************************************************************************)
EXTENDS Integers, Sequences, FiniteSets

(***************************************************************************)
(* Bounds of the model (the sliders and number inputs allow more).         *)
(***************************************************************************)
MaxFaixa == 2
MaxWorkers == 2
MaxRetries == 2
\* Transient network failures the remote shows in one run, at most.
MaxFalhasRede == 2

(***************************************************************************)
(* Program constants.                                                      *)
(***************************************************************************)
CodigoInicio == 0
CodigoFim == 99999
MinCodigo == 1
ErroHttpMin == 400

\* First identifiers the model tries: the range then meets the code under
\* which the completion message is logged.
CodigosIniciais == {CodigoFim}

Principal == 0
Livre == -1

\* HTTP statuses the remote may answer with.
Status == {200, 404}

\* Content of the element lblNome1 of a page: SemTag when the element is
\* absent, otherwise its text as a sequence of characters.
SemTag == <<"<sem lblNome1>">>
Paginas == {SemTag, <<" ">>, <<" ", "a">>}

\* What one requests.get + parse may do.
\*   rede       : a RequestException that is no HTTPError (a timeout, a
\*                connection error)
\*   resposta   : a response with a status and a page
\*   inesperado : an exception that is no RequestException, raised inside
\*                the try body (the parser rejects the markup)
Respostas ==
    {[tipo |-> "rede", status |-> 0, pagina |-> SemTag],
     [tipo |-> "inesperado", status |-> 200, pagina |-> SemTag]}
    \cup {[tipo |-> "resposta", status |-> 200, pagina |-> p] : p \in Paginas}
    \cup {[tipo |-> "resposta", status |-> s, pagina |-> SemTag] :
              s \in {s \in Status : s >= ErroHttpMin}}

VARIABLES
    codigo_inicial, codigo_final, max_workers, max_retries,
    pcm,                \* position of the main thread
    log_lock,           \* holder of log_lock, or Livre
    status_messages,    \* sequence of <<codigo, message>>
    future_to_code,     \* sequence: future (position) -> codigo
    pc,                 \* per future: position of its task
    attempt,            \* per future: loop variable of coletar_exercicio
    msg,                \* per future: message its pending log_status appends
    prox,               \* per future: what follows the pending log_status
    retorno,            \* per future: value the task returns (or raises)
    respostas,          \* per future: the fetch responses it got, in order
    wait_time,          \* per future: local variable wait_time
    esperas,            \* per future: the delays it slept, in order
    resultados_finais,
    coletados,          \* futures as_completed has yielded
    progressos,         \* arguments given to progress_bar.progress
    saida               \* what the assembly displays after the run

vars == <<codigo_inicial, codigo_final, max_workers, max_retries, pcm,
          log_lock, status_messages, future_to_code, pc, attempt, msg, prox,
          retorno, respostas, wait_time,
                   esperas, resultados_finais, coletados,
          progressos, saida>>

entradas == <<codigo_inicial, codigo_final, max_workers, max_retries>>
tarefas == <<pc, attempt, msg, prox, retorno, respostas, wait_time,
                   esperas>>
coleta == <<resultados_finais, coletados, progressos>>

----------------------------------------------------------------------------
(* Pure functions *)

\* range(a, b): the sequence a, a+1, ..., b-1 (empty when a >= b).
Range(a, b) == [k \in 1..(IF b > a THEN b - a ELSE 0) |-> a + k - 1]

codigos_totais == Range(codigo_inicial, codigo_final + 1)
\* The length by arithmetic instead of len(range(...)).
total_a_coletarMut == codigo_final + 1 - codigo_inicial

total_a_coletar == Len(codigos_totais)

\* str.strip() on a sequence of characters.
RECURSIVE StripEsq(_)
StripEsq(s) ==
    IF s # <<>> /\ Head(s) = " " THEN StripEsq(Tail(s)) ELSE s

RECURSIVE StripDir(_)
StripDir(s) ==
    IF s # <<>> /\ s[Len(s)] = " " THEN StripDir(SubSeq(s, 1, Len(s) - 1)) ELSE s

Strip(s) == StripDir(StripEsq(s))

\* nome_tag.get_text(strip=True); only used when the element exists.
GetText(p) == Strip(p)

PaginaVaziaMut(p) == p = SemTag

\* "not nome_tag or not nome_tag.get_text(strip=True)"
PaginaVazia(p) == p = SemTag \/ GetText(p) = <<>>

\* The messages of the log, by the fields that vary in them.
Mensagem(tipo, n, t, nome) == [tipo |-> tipo, n |-> n, t |-> t, nome |-> nome]
SemMensagem == Mensagem("-", 0, 0, <<>>)

\* Values of a future: None, a dict, or an exception to re-raise.
Nenhum == [tag |-> "None", codigo |-> 0, nome |-> <<>>]
Dict(c, nome) == [tag |-> "dict", codigo |-> c, nome |-> nome]
Excecao == [tag |-> "raise", codigo |-> 0, nome |-> <<>>]

\* A test that only an exception fails: None is appended as well.
VerdadeiroMut(v) == v.tag # "raise"

\* Python truth value of what future.result() returns.
Verdadeiro(v) == v.tag = "dict"

WaitTimeMut(a) == 2 * a

\* wait_time = 2 ** attempt
WaitTime(a) == 2 ^ a

\* An insertion that puts x before the elements of equal key.
RECURSIVE InserirMut(_, _)
InserirMut(s, x) ==
    IF s = <<>> THEN <<x>>
    ELSE IF x[1] <= s[Len(s)][1]
         THEN Append(InserirMut(SubSeq(s, 1, Len(s) - 1), x), s[Len(s)])
         ELSE Append(s, x)

\* sorted(xs, key=lambda x: x[0]) on a sequence of tuples: a stable sort.
RECURSIVE Inserir(_, _)
Inserir(s, x) ==
    IF s = <<>> THEN <<x>>
    ELSE IF x[1] < s[Len(s)][1]
         THEN Append(Inserir(SubSeq(s, 1, Len(s) - 1), x), s[Len(s)])
         ELSE Append(s, x)

SortedMut(s) == s

RECURSIVE Sorted(_)
Sorted(s) ==
    IF s = <<>> THEN <<>>
    ELSE Inserir(Sorted(SubSeq(s, 1, Len(s) - 1)), s[Len(s)])

SortedPorCodigoMut(rs) == rs

\* sorted(resultados_finais, key=lambda x: x["codigo"])
SortedPorCodigo(rs) ==
    LET pares == [k \in 1..Len(rs) |-> <<rs[k].codigo, rs[k]>>]
        ord == Sorted(pares)
    IN  [k \in 1..Len(ord) |-> ord[k][2]]

----------------------------------------------------------------------------
(* Initial state: the button was pressed with some inputs *)

SemSaida ==
    [exercicios_coletados |-> <<>>, sorted_logs |-> <<>>,
     tentativas |-> 0, total_sucesso |-> 0, total_falha |-> 0]

Init ==
    /\ codigo_inicial \in CodigosIniciais
    /\ codigo_final \in {MinCodigo} \cup
                        {codigo_inicial + k : k \in 0..(MaxFaixa - 1)}
    /\ max_workers \in 1..MaxWorkers
    /\ max_retries \in 1..MaxRetries
    /\ pcm = "log_inicio"
    /\ log_lock = Livre
    /\ status_messages = <<>>
    /\ future_to_code = <<>>
    /\ pc = <<>>
    /\ attempt = <<>>
    /\ msg = <<>>
    /\ prox = <<>>
    /\ retorno = <<>>
    /\ respostas = <<>>
    /\ wait_time = <<>>
    /\ esperas = <<>>
    /\ resultados_finais = <<>>
    /\ coletados = {}
    /\ progressos = <<>>
    /\ saida = SemSaida

Futuros == 1..Len(future_to_code)

----------------------------------------------------------------------------
(* log_status, by the main thread *)

\* A with statement that does not wait for the lock.
LockLivreMut == TRUE

\* log_lock can be acquired.
LockLivre == log_lock = Livre

\* "with log_lock:" entered by the main thread.
TravarPrincipal ==
    /\ pcm \in {"log_inicio", "log_fim"}
    /\ LockLivre
    /\ log_lock' = Principal
    /\ pcm' = IF pcm = "log_inicio" THEN "append_inicio" ELSE "append_fim"
    /\ UNCHANGED <<entradas, status_messages, future_to_code, tarefas, coleta,
                   saida>>

\* status_messages.append((codigo, message)) and leaving the with block.
AnexarPrincipal ==
    /\ pcm \in {"append_inicio", "append_fim"}
    /\ log_lock = Principal
    /\ status_messages' =
           Append(status_messages,
                  IF pcm = "append_inicio"
                  THEN <<CodigoInicio, Mensagem("inicio", total_a_coletar, 0, <<>>)>>
                  ELSE <<CodigoFim, Mensagem("fim", 0, 0, <<>>)>>)
    /\ log_lock' = Livre
    /\ pcm' = IF pcm = "append_inicio" THEN "submit" ELSE "montagem"
    /\ UNCHANGED <<entradas, future_to_code, tarefas, coleta, saida>>

----------------------------------------------------------------------------
(* The tasks: coletar_exercicio(codigo) run by the pool *)

TemProximaMut(a) == a <= max_retries

\* "for attempt in range(max_retries)": the loop has a pass for attempt a.
TemProxima(a) == a < max_retries

EmExecucao == {f \in Futuros : pc[f] \notin {"fila", "fim"}}

\* A worker thread takes the oldest queued work item.
Iniciar(f) ==
    /\ f \in Futuros
    /\ pc[f] = "fila"
    /\ \A g \in 1..(f - 1) : pc[g] # "fila"
    /\ Cardinality(EmExecucao) < max_workers
    /\ pc' = [pc EXCEPT ![f] = "get"]
    /\ attempt' = [attempt EXCEPT ![f] = 0]
    /\ UNCHANGED <<entradas, pcm, log_lock, status_messages, future_to_code,
                   msg, prox, retorno, respostas, wait_time,
                   esperas, coleta, saida>>

\* The except clauses in the other order: an HTTPError is a RequestException.
TratarMut(c, a, r) ==
    IF r.tipo = "rede" \/ r.status >= ErroHttpMin
    THEN <<Mensagem("rede", a + 1, WaitTime(a), <<>>), "sleep", Nenhum>>
    ELSE IF PaginaVazia(r.pagina)
    THEN <<Mensagem("aviso", 0, 0, <<>>), "return", Nenhum>>
    ELSE <<Mensagem("sucesso", 0, 0, GetText(r.pagina)), "return",
           Dict(c, GetText(r.pagina))>>

\* The success branch without its return: the loop goes on.
TratarSemReturn(c, a, r) ==
    IF r.tipo = "rede"
    THEN <<Mensagem("rede", a + 1, WaitTime(a), <<>>), "sleep", Nenhum>>
    ELSE IF r.status >= ErroHttpMin
    THEN <<Mensagem("info", r.status, 0, <<>>), "return", Nenhum>>
    ELSE IF PaginaVazia(r.pagina)
    THEN <<Mensagem("aviso", 0, 0, <<>>), "return", Nenhum>>
    ELSE <<Mensagem("sucesso", 0, 0, GetText(r.pagina)), "sleep",
           Dict(c, GetText(r.pagina))>>

\* How the try body and its except clauses classify a response:
\* <<message to log, what follows the log, value to return>>.
Tratar(c, a, r) ==
    IF r.tipo = "rede"
    THEN <<Mensagem("rede", a + 1, WaitTime(a), <<>>), "sleep", Nenhum>>
    ELSE IF r.status >= ErroHttpMin
    THEN <<Mensagem("info", r.status, 0, <<>>), "return", Nenhum>>
    ELSE IF PaginaVazia(r.pagina)
    THEN <<Mensagem("aviso", 0, 0, <<>>), "return", Nenhum>>
    ELSE <<Mensagem("sucesso", 0, 0, GetText(r.pagina)), "return",
           Dict(c, GetText(r.pagina))>>

\* Transient failures seen so far in the run, over all tasks.
RECURSIVE FalhasRede(_)
FalhasRede(f) ==
    IF f = 0 THEN 0
    ELSE FalhasRede(f - 1)
         + Cardinality({k \in 1..Len(respostas[f]) : respostas[f][k].tipo = "rede"})

\* One pass of the try body up to the call of log_status: requests.get,
\* raise_for_status, the parse and the test of the name element.
Requisitar(f, r) ==
    /\ f \in Futuros
    /\ pc[f] = "get"
    /\ r \in Respostas
    /\ r.tipo = "rede" => FalhasRede(Len(future_to_code)) < MaxFalhasRede
    /\ respostas' = [respostas EXCEPT ![f] = Append(@, r)]
    /\ IF r.tipo = "inesperado"
       THEN /\ pc' = [pc EXCEPT ![f] = "fim"]
            /\ retorno' = [retorno EXCEPT ![f] = Excecao]
            /\ UNCHANGED <<msg, prox, wait_time>>
       ELSE LET t == Tratar(future_to_code[f], attempt[f], r) IN
            /\ pc' = [pc EXCEPT ![f] = "log"]
            /\ wait_time' = [wait_time EXCEPT ![f] =
                                 IF t[2] = "sleep" THEN t[1].t ELSE @]
            /\ msg' = [msg EXCEPT ![f] = t[1]]
            /\ prox' = [prox EXCEPT ![f] = t[2]]
            /\ retorno' = [retorno EXCEPT ![f] = t[3]]
    /\ UNCHANGED <<entradas, pcm, log_lock, status_messages, future_to_code,
                   attempt, esperas, coleta, saida>>

\* "with log_lock:" entered by a task.
Travar(f) ==
    /\ f \in Futuros
    /\ pc[f] = "log"
    /\ LockLivre
    /\ log_lock' = f
    /\ pc' = [pc EXCEPT ![f] = "append"]
    /\ UNCHANGED <<entradas, pcm, status_messages, future_to_code, attempt,
                   msg, prox, retorno, respostas, wait_time,
                   esperas, coleta, saida>>

\* status_messages.append((codigo, message)), leaving the with block, and
\* on to what follows: the sleep, or the return that completes the future.
Anexar(f) ==
    /\ f \in Futuros
    /\ pc[f] = "append"
    /\ log_lock = f
    /\ status_messages' = Append(status_messages, <<future_to_code[f], msg[f]>>)
    /\ log_lock' = Livre
    /\ pc' = [pc EXCEPT ![f] = IF prox[f] = "sleep" THEN "sleep" ELSE "fim"]
    /\ msg' = [msg EXCEPT ![f] = SemMensagem]
    /\ UNCHANGED <<entradas, pcm, future_to_code, attempt, prox, retorno,
                   respostas, wait_time,
                   esperas, coleta, saida>>

\* time.sleep(wait_time) returns; the for loop goes to its next attempt or,
\* the range exhausted, to the final-failure log_status.
Dormir(f) ==
    /\ f \in Futuros
    /\ pc[f] = "sleep"
    /\ esperas' = [esperas EXCEPT ![f] = Append(@, wait_time[f])]
    /\ attempt' = [attempt EXCEPT ![f] = @ + 1]
    /\ IF TemProxima(attempt[f] + 1)
       THEN /\ pc' = [pc EXCEPT ![f] = "get"]
            /\ UNCHANGED <<msg, prox>>
       ELSE /\ pc' = [pc EXCEPT ![f] = "log"]
            /\ msg' = [msg EXCEPT ![f] = Mensagem("falha", max_retries, 0, <<>>)]
            /\ prox' = [prox EXCEPT ![f] = "return"]
    /\ UNCHANGED <<entradas, pcm, log_lock, status_messages, future_to_code,
                   retorno, respostas, wait_time, coleta, saida>>

----------------------------------------------------------------------------
(* The main thread: submission, collection loop, assembly *)

\* executor.submit for every codigo of codigos_totais.
Submeter ==
    /\ pcm = "submit"
    /\ future_to_code' = codigos_totais
    /\ pc' = [f \in 1..total_a_coletar |-> "fila"]
    /\ attempt' = [f \in 1..total_a_coletar |-> 0]
    /\ msg' = [f \in 1..total_a_coletar |-> SemMensagem]
    /\ prox' = [f \in 1..total_a_coletar |-> "return"]
    /\ retorno' = [f \in 1..total_a_coletar |-> Nenhum]
    /\ respostas' = [f \in 1..total_a_coletar |-> <<>>]
    /\ wait_time' = [f \in 1..total_a_coletar |-> 0]
    /\ esperas' = [f \in 1..total_a_coletar |-> <<>>]
    /\ progressos' = Append(progressos, <<0, 1>>)
    /\ pcm' = "coleta"
    /\ UNCHANGED <<entradas, log_lock, status_messages, resultados_finais,
                   coletados, saida>>

ColetaCompletaMut == coletados # {} \/ Futuros = {}

\* as_completed has yielded every future.
ColetaCompleta == coletados = Futuros

\* One pass of the collection loop: as_completed yields a finished future,
\* future.result() returns its value or re-raises its exception.
Coletar(f) ==
    /\ pcm = "coleta"
    /\ f \in Futuros \ coletados
    /\ pc[f] = "fim"
    /\ coletados' = coletados \cup {f}
    /\ IF retorno[f].tag = "raise"
       THEN /\ pcm' = "abortando"
            /\ UNCHANGED <<resultados_finais, progressos>>
       ELSE /\ resultados_finais' =
                   IF Verdadeiro(retorno[f])
                   THEN Append(resultados_finais,
                               [codigo |-> retorno[f].codigo, nome |-> retorno[f].nome])
                   ELSE resultados_finais
            /\ progressos' = Append(progressos, <<Cardinality(coletados) + 1, total_a_coletar>>)
            /\ pcm' = pcm
    /\ UNCHANGED <<entradas, log_lock, status_messages, future_to_code,
                   tarefas, saida>>

\* The loop is over; the with block ends (shutdown(wait=True)); the bar is
\* set to 1.0.
Sair ==
    /\ pcm = "coleta"
    /\ ColetaCompleta
    /\ \A f \in Futuros : pc[f] = "fim"
    /\ progressos' = Append(progressos, <<1, 1>>)
    /\ pcm' = "log_fim"
    /\ UNCHANGED <<entradas, log_lock, status_messages, future_to_code,
                   tarefas, resultados_finais, coletados, saida>>

\* An exception re-raised by future.result() leaves the with block, which
\* waits for the running tasks, and ends the script run.
Propagar ==
    /\ pcm = "abortando"
    /\ \A f \in Futuros : pc[f] = "fim"
    /\ pcm' = "abortado"
    /\ UNCHANGED <<entradas, log_lock, status_messages, future_to_code,
                   tarefas, coleta, saida>>

\* Lines 117-131: the sorted records, the counters, the sorted log.
Montar ==
    /\ pcm = "montagem"
    /\ saida' = [exercicios_coletados |-> SortedPorCodigo(resultados_finais),
                 sorted_logs |-> Sorted(status_messages),
                 tentativas |-> total_a_coletar,
                 total_sucesso |-> Len(SortedPorCodigo(resultados_finais)),
                 total_falha |-> total_a_coletar
                                 - Len(SortedPorCodigo(resultados_finais))]
    /\ pcm' = "fim"
    /\ UNCHANGED <<entradas, log_lock, status_messages, future_to_code,
                   tarefas, coleta>>

----------------------------------------------------------------------------
Next ==
    \/ TravarPrincipal
    \/ AnexarPrincipal
    \/ Submeter
    \/ \E f \in Futuros : Iniciar(f)
    \/ \E f \in Futuros : \E r \in Respostas : Requisitar(f, r)
    \/ \E f \in Futuros : Travar(f)
    \/ \E f \in Futuros : Anexar(f)
    \/ \E f \in Futuros : Dormir(f)
    \/ \E f \in Futuros : Coletar(f)
    \/ Sair
    \/ Propagar
    \/ Montar

Spec == Init /\ [][Next]_vars

----------------------------------------------------------------------------
(* Vocabulary of the properties *)

\* The events the tasks logged under codigo c, in the order of emission.
EventosDe(c) ==
    LET DaTarefa(x) == x[1] = c /\ x[2].tipo \notin {"inicio", "fim"}
    IN  SelectSeq(status_messages, DaTarefa)

Terminou(f) == pc[f] = "fim"

\* The terminal outcome of a finished task, as its last log event states it.
Desfecho(f) ==
    LET ev == EventosDe(future_to_code[f]) IN
    IF retorno[f].tag = "raise" THEN "Excecao"
    ELSE IF ev = <<>> THEN "-"
    ELSE CASE ev[Len(ev)][2].tipo = "sucesso" -> "Success"
           [] ev[Len(ev)][2].tipo = "aviso" -> "Empty"
           [] ev[Len(ev)][2].tipo = "info" -> "NotFound"
           [] ev[Len(ev)][2].tipo = "falha" -> "NetworkError"
           [] OTHER -> "-"

Transitoria(r) == r.tipo = "rede"
ErroHttp(r) == r.tipo = "resposta" /\ r.status >= ErroHttpMin

\* Length of the inclusive range [codigo_inicial, codigo_final].
TamanhoFaixa ==
    IF codigo_final >= codigo_inicial THEN codigo_final - codigo_inicial + 1 ELSE 0

RunEnded == pcm \in {"fim", "abortado"}

----------------------------------------------------------------------------
(* C1 *)

\* C1: when the run has ended, every identifier of the inclusive range has
\* exactly one future, that future has completed, and the collection loop
\* has collected it (none duplicated, none dropped).
C1_UmDesfechoPorCodigo ==
    RunEnded =>
        \A c \in codigo_inicial..codigo_final :
            /\ Cardinality({f \in Futuros : future_to_code[f] = c}) = 1
            /\ \A f \in Futuros :
                   future_to_code[f] = c => Terminou(f) /\ f \in coletados

----------------------------------------------------------------------------
(* C2 *)

\* C2: the final record list is strictly ascending by codigo (so no two
\* records share a codigo), every record belongs to an identifier whose
\* outcome was Success, and the list is no longer than the range.
C2_ListaOrdenada ==
    pcm = "fim" =>
        LET lista == saida.exercicios_coletados IN
        /\ \A i, j \in 1..Len(lista) : i < j => lista[i].codigo < lista[j].codigo
        /\ \A i \in 1..Len(lista) :
               \E f \in Futuros : /\ future_to_code[f] = lista[i].codigo
                                  /\ Desfecho(f) = "Success"
        /\ Len(lista) <= TamanhoFaixa

\* Two records were collected in descending order of codigo and the run ended.
C2_Witness ==
    /\ pcm = "fim"
    /\ Len(resultados_finais) = 2
    /\ resultados_finais[1].codigo > resultados_finais[2].codigo

----------------------------------------------------------------------------
(* C3 *)

\* C3: a task that ended in NetworkError made exactly max_retries fetch
\* attempts and every one of them failed transiently.
C3_FalhaFinalAposMaxRetries ==
    \A f \in Futuros :
        Terminou(f) /\ Desfecho(f) = "NetworkError" =>
            /\ Len(respostas[f]) = max_retries
            /\ \A k \in 1..Len(respostas[f]) : Transitoria(respostas[f][k])

\* A task ended in NetworkError after two attempts.
C3_Witness ==
    \E f \in Futuros :
        Terminou(f) /\ Desfecho(f) = "NetworkError" /\ Len(respostas[f]) = 2

----------------------------------------------------------------------------
(* C4 *)

\* C4 (as claimed): a task that ended in NotFound made exactly one fetch
\* attempt in total.
C4_UmaTentativa ==
    \A f \in Futuros :
        Terminou(f) /\ Desfecho(f) = "NotFound" => Len(respostas[f]) = 1

\* C4 (amended): the attempt answered with an HTTP error status is never
\* retried. A task that ended in NotFound made k + 1 attempts, k < max_retries
\* transient failures followed by the HTTP error, and a finished task that
\* got an HTTP error got it on its last attempt and ended in NotFound.
C4_ErroHttpNaoRepete ==
    \A f \in Futuros :
        Terminou(f) =>
            LET n == Len(respostas[f]) IN
            /\ Desfecho(f) = "NotFound" =>
                   /\ n >= 1 /\ n <= max_retries
                   /\ ErroHttp(respostas[f][n])
                   /\ \A k \in 1..(n - 1) : Transitoria(respostas[f][k])
            /\ \A k \in 1..n :
                   ErroHttp(respostas[f][k]) => k = n /\ Desfecho(f) = "NotFound"

\* A task ended in NotFound on its second attempt.
C4_Witness ==
    \E f \in Futuros :
        /\ Terminou(f) /\ Desfecho(f) = "NotFound"
        /\ Len(respostas[f]) = 2

----------------------------------------------------------------------------
(* C5 *)

\* C5 (as claimed): the n-th sleep of a task, the one that precedes attempt n
\* (0-indexed), lasts 2^n.
C5_AtrasoAntesDaTentativa ==
    \A f \in Futuros :
        \A n \in 1..Len(esperas[f]) : esperas[f][n] = 2 ^ n

\* C5 (amended): the sleep that follows failed attempt n (0-indexed), which
\* is the one that precedes attempt n + 1, lasts 2^n, and the successive
\* sleeps of a task are strictly increasing.
C5_AtrasoAposTentativa ==
    \A f \in Futuros :
        \A n \in 1..Len(esperas[f]) :
            /\ esperas[f][n] = 2 ^ (n - 1)
            /\ n > 1 => esperas[f][n] > esperas[f][n - 1]

\* A task has slept twice.
C5_Witness == \E f \in Futuros : Len(esperas[f]) = 2

----------------------------------------------------------------------------
(* C6 *)

Montando == pcm \in {"log_fim", "append_fim", "montagem", "fim"}

\* C6: once the run is past the collection loop (completion log entry,
\* sorting, counters), every identifier of the range has a task, and every
\* task has run, has reached its terminal state and has been collected.
C6_MontagemAposTodas ==
    Montando =>
        /\ Len(future_to_code) = TamanhoFaixa
        /\ \A f \in Futuros :
               Terminou(f) /\ f \in coletados /\ Len(respostas[f]) >= 1

\* The result was assembled in a run where one identifier failed and
\* another one succeeded.
C6_Witness ==
    /\ pcm = "fim"
    /\ \E f, g \in Futuros :
           /\ Desfecho(f) \in {"NotFound", "NetworkError", "Empty"}
           /\ Desfecho(g) = "Success"

----------------------------------------------------------------------------
(* C7 *)

\* C7: no failure inside a task leaves the task: the batch never aborts,
\* and every finished task has returned (None or a record) after logging
\* at least one event.
C7_FalhasContidas ==
    /\ pcm \notin {"abortando", "abortado"}
    /\ \A f \in Futuros :
           Terminou(f) =>
               /\ retorno[f].tag \in {"None", "dict"}
               /\ EventosDe(future_to_code[f]) # <<>>

----------------------------------------------------------------------------
(* C8 *)

\* What a task logs, read off the responses it got: one event per response
\* and the final-failure event when the last permitted attempt failed.
NomeNaoVazio(r) ==
    /\ r.tipo = "resposta" /\ r.status < ErroHttpMin
    /\ r.pagina # SemTag
    /\ \E i \in 1..Len(r.pagina) : r.pagina[i] # " "

EventoEsperado(k, r) ==
    IF Transitoria(r) THEN Mensagem("rede", k, 2 ^ (k - 1), <<>>)
    ELSE IF ErroHttp(r) THEN Mensagem("info", r.status, 0, <<>>)
    ELSE IF NomeNaoVazio(r) THEN Mensagem("sucesso", 0, 0, Strip(r.pagina))
    ELSE Mensagem("aviso", 0, 0, <<>>)

EventosEsperados(c, rs) ==
    [k \in 1..Len(rs) |-> <<c, EventoEsperado(k, rs[k])>>]
    \o (IF Len(rs) = max_retries /\ Transitoria(rs[Len(rs)])
        THEN <<<<c, Mensagem("falha", max_retries, 0, <<>>)>>>>
        ELSE <<>>)

\* The events of the futures 1..f whose codigo lies on the side of the
\* completion code asked for, future after future.
RECURSIVE EventosDosFuturos(_, _)
EventosDosFuturos(f, depois) ==
    IF f = 0 THEN <<>>
    ELSE EventosDosFuturos(f - 1, depois)
         \o (IF (future_to_code[f] > CodigoFim) = depois
             THEN EventosEsperados(future_to_code[f], respostas[f])
             ELSE <<>>)

LogEsperado ==
    <<<<CodigoInicio, Mensagem("inicio", TamanhoFaixa, 0, <<>>)>>>>
    \o EventosDosFuturos(Len(future_to_code), FALSE)
    \o <<<<CodigoFim, Mensagem("fim", 0, 0, <<>>)>>>>
    \o EventosDosFuturos(Len(future_to_code), TRUE)

RECURSIVE RegistrosEsperados(_)
RegistrosEsperados(f) ==
    IF f = 0 THEN <<>>
    ELSE RegistrosEsperados(f - 1)
         \o (IF respostas[f] # <<>> /\ NomeNaoVazio(respostas[f][Len(respostas[f])])
             THEN <<[codigo |-> codigo_inicial + f - 1,
                     nome |-> Strip(respostas[f][Len(respostas[f])].pagina)]>>
             ELSE <<>>)

\* C8: the final record list and the final sorted log are functions of the
\* range, max_retries and the responses each identifier got: they are the
\* same in every interleaving, completion order and pool size.
C8_ResultadoDeterminado ==
    pcm = "fim" =>
        /\ saida.exercicios_coletados = RegistrosEsperados(Len(future_to_code))
        /\ saida.sorted_logs = LogEsperado

\* The run ended with the records collected in descending order and the
\* log emitted in another order than the sorted one.
C8_Witness ==
    /\ pcm = "fim"
    /\ saida.sorted_logs # status_messages
    /\ Len(resultados_finais) = 2
    /\ resultados_finais[1].codigo > resultados_finais[2].codigo

----------------------------------------------------------------------------
(* C9 *)

ComCodigo(s, c) ==
    LET DoCodigo(x) == x[1] = c IN SelectSeq(s, DoCodigo)

\* C9: the displayed log is ascending by codigo, the events of one codigo
\* keep the order in which they were emitted, and the last event of each
\* identifier is its terminal status, after its retry warnings.
C9_LogOrdenadoEstavel ==
    pcm = "fim" =>
        LET log == saida.sorted_logs IN
        /\ \A i, j \in 1..Len(log) : i < j => log[i][1] <= log[j][1]
        /\ \A i \in 1..Len(status_messages) :
               ComCodigo(log, status_messages[i][1])
                   = ComCodigo(status_messages, status_messages[i][1])
        /\ Len(log) = Len(status_messages)
        /\ \A f \in Futuros :
               LET DaTarefa(x) == x[1] = future_to_code[f]
                                  /\ x[2].tipo \notin {"inicio", "fim"}
                   ev == SelectSeq(log, DaTarefa)
               IN  /\ ev # <<>>
                   /\ ev[Len(ev)][2].tipo \in {"sucesso", "aviso", "info", "falha"}
                   /\ \A k \in 1..(Len(ev) - 1) :
                          ev[k][2].tipo = "rede" /\ ev[k][2].n = k

\* The run ended and, as emitted, an event of another codigo lies between
\* two events of one codigo.
C9_Witness ==
    /\ pcm = "fim"
    /\ \E i, j, k \in 1..Len(status_messages) :
           /\ i < j /\ j < k
           /\ status_messages[i][1] = status_messages[k][1]
           /\ status_messages[j][1] < status_messages[i][1]
           /\ status_messages[j][1] # CodigoInicio

----------------------------------------------------------------------------
(* C10 *)

RespostaSemErro(r) == r.tipo = "resposta" /\ r.status < ErroHttpMin

\* C10: a finished task returns a record if and only if one of its fetches
\* got a non-error response whose name element is present and not blank;
\* the record carries the trimmed name. A non-error response whose name
\* element is absent or blank is the last fetch of its task, which ends as
\* Empty without a record.
C10_RegistroSseNomePresente ==
    \A f \in Futuros :
        Terminou(f) =>
            /\ retorno[f].tag = "dict"
                   <=> \E k \in 1..Len(respostas[f]) : NomeNaoVazio(respostas[f][k])
            /\ retorno[f].tag = "dict" =>
                   /\ retorno[f].codigo = future_to_code[f]
                   /\ retorno[f].nome # <<>>
                   /\ Head(retorno[f].nome) # " "
                   /\ retorno[f].nome[Len(retorno[f].nome)] # " "
            /\ \A k \in 1..Len(respostas[f]) :
                   RespostaSemErro(respostas[f][k]) /\ ~NomeNaoVazio(respostas[f][k])
                       => /\ k = Len(respostas[f])
                          /\ retorno[f].tag = "None"
                          /\ Desfecho(f) = "Empty"

\* One task ended as Empty on a page whose name element is blank, another
\* returned a record after a transient failure.
C10_Witness ==
    \E f, g \in Futuros :
        /\ Terminou(f) /\ Desfecho(f) = "Empty"
        /\ respostas[f][Len(respostas[f])].pagina = <<" ">>
        /\ Terminou(g) /\ retorno[g].tag = "dict" /\ Len(respostas[g]) = 2

----------------------------------------------------------------------------
(* C11 *)

\* C11: a finished task whose first k fetches failed transiently
\* (0 <= k < max_retries) and whose fetch k + 1 got a page with a name ended
\* in Success with exactly k + 1 log events: k retry warnings, numbered
\* 1..k, then one success event, and no final-failure event.
C11_SucessoAposFalhas ==
    \A f \in Futuros :
        LET n == Len(respostas[f])
            ev == EventosDe(future_to_code[f])
        IN  (/\ Terminou(f)
             /\ n >= 1 /\ n <= max_retries
             /\ NomeNaoVazio(respostas[f][n])
             /\ \A k \in 1..(n - 1) : Transitoria(respostas[f][k]))
            => /\ Desfecho(f) = "Success"
               /\ retorno[f].tag = "dict"
               /\ Len(ev) = n
               /\ \A k \in 1..(n - 1) :
                      ev[k][2].tipo = "rede" /\ ev[k][2].n = k
               /\ ev[n][2].tipo = "sucesso"
               /\ \A k \in 1..Len(ev) : ev[k][2].tipo # "falha"

\* A task succeeded on its second fetch, after one transient failure.
C11_Witness ==
    \E f \in Futuros :
        /\ Terminou(f)
        /\ Len(respostas[f]) = 2
        /\ Transitoria(respostas[f][1])
        /\ NomeNaoVazio(respostas[f][2])

----------------------------------------------------------------------------
(* C12 *)

\* C12: for an empty range (codigo_inicial > codigo_final) no task is ever
\* dispatched and no fetch is made, nothing is collected, and the run ends
\* with an empty record list and the three counters at zero.
C12_FaixaVazia ==
    codigo_inicial > codigo_final =>
        /\ future_to_code = <<>>
        /\ respostas = <<>>
        /\ resultados_finais = <<>>
        /\ pcm \notin {"abortando", "abortado"}
        /\ pcm = "fim" =>
               /\ saida.exercicios_coletados = <<>>
               /\ saida.tentativas = 0
               /\ saida.total_sucesso = 0
               /\ saida.total_falha = 0

\* A run over an empty range has ended.
C12_Witness == pcm = "fim" /\ codigo_inicial > codigo_final

----------------------------------------------------------------------------
(* C13 *)

\* The steps of the harvest: all of Next but the assembly that follows it.
PassosDaColeta ==
    \/ TravarPrincipal
    \/ AnexarPrincipal
    \/ Submeter
    \/ \E f \in Futuros : Iniciar(f)
    \/ \E f \in Futuros : \E r \in Respostas : Requisitar(f, r)
    \/ \E f \in Futuros : Travar(f)
    \/ \E f \in Futuros : Anexar(f)
    \/ \E f \in Futuros : Dormir(f)
    \/ \E f \in Futuros : Coletar(f)
    \/ Sair
    \/ Propagar

\* The threads are scheduled, every requests.get returns or times out and
\* every time.sleep ends: the harvest does not stop while one of its steps
\* is possible.
FairSpec == Spec /\ WF_vars(PassosDaColeta)

\* The harvest is over: the completion message is logged and only the
\* assembly is left, or an exception has ended the run.
ColetaTerminada == pcm \in {"montagem", "fim", "abortado"}

\* C13: every harvest terminates, with every task finished and none having
\* made more than max_retries fetches.
C13_Termina ==
    <>(/\ ColetaTerminada
       /\ \A f \in Futuros : Terminou(f) /\ Len(respostas[f]) <= max_retries)

\* The run ended and one task had used up its two permitted fetches.
C13_Witness ==
    /\ ColetaTerminada
    /\ \E f \in Futuros : Len(respostas[f]) = 2 /\ max_retries = 2

----------------------------------------------------------------------------
(* C14 *)

ComDesfecho(ds) == {f \in Futuros : Desfecho(f) \in ds}

\* C14: after the run, "Tentativas" is the length of the range, "Coletados
\* com Sucesso" the number of identifiers that ended in Success, "Falhas ou
\* Inexistentes" the number that ended in Empty, NotFound or NetworkError,
\* and the last two add up to the first.
C14_Contadores ==
    pcm = "fim" =>
        /\ saida.tentativas = TamanhoFaixa
        /\ saida.total_sucesso = Cardinality(ComDesfecho({"Success"}))
        /\ saida.total_falha =
               Cardinality(ComDesfecho({"Empty", "NotFound", "NetworkError"}))
        /\ saida.total_sucesso + saida.total_falha = saida.tentativas

\* The run ended with one identifier collected and one failed.
C14_Witness ==
    /\ pcm = "fim"
    /\ saida.total_sucesso = 1
    /\ saida.total_falha = 1

----------------------------------------------------------------------------
(* C15 *)

\* C15: a task sleeps after a transient failure only when another attempt
\* remains: it is never asleep after its last permitted attempt, and it
\* never has slept as many times as it may attempt.
C15_SemEsperaAntesDaFalhaFinal ==
    \A f \in Futuros :
        /\ pc[f] = "sleep" => attempt[f] + 1 < max_retries
        /\ Len(esperas[f]) < max_retries

----------------------------------------------------------------------------
(* C16 *)

InfoDe(c) ==
    LET Info(x) == x[1] = c /\ x[2].tipo = "info"
    IN  SelectSeq(status_messages, Info)

\* C16: once a fetch of an identifier was answered with an HTTP error
\* status, that fetch stays its last one: the task only logs and returns,
\* it never fetches or sleeps again, it returns no record and none of its
\* codigo is collected, and it logs one info event, which carries the
\* status, and no other event after it.
C16_ErroHttpEncerra ==
    \A f \in Futuros :
        \A k \in 1..Len(respostas[f]) :
            ErroHttp(respostas[f][k]) =>
                /\ k = Len(respostas[f])
                /\ pc[f] \in {"log", "append", "fim"}
                /\ Len(esperas[f]) = k - 1
                /\ retorno[f].tag = "None"
                /\ \A i \in 1..Len(resultados_finais) :
                       resultados_finais[i].codigo # future_to_code[f]
                /\ Len(InfoDe(future_to_code[f])) <= 1
                /\ Terminou(f) =>
                       /\ Desfecho(f) = "NotFound"
                       /\ InfoDe(future_to_code[f])
                              = <<<<future_to_code[f],
                                    Mensagem("info", respostas[f][k].status, 0, <<>>)>>>>
                       /\ Len(EventosDe(future_to_code[f])) = k

\* A task was collected after an HTTP error on its second fetch, the first
\* one having failed transiently and been slept on.
C16_Witness ==
    \E f \in Futuros :
        /\ f \in coletados
        /\ Len(respostas[f]) = 2
        /\ ErroHttp(respostas[f][2])
        /\ esperas[f] = <<1>>

----------------------------------------------------------------------------
(* C17 *)

\* The threads that are inside the with block of log_status.
NoAppend ==
    {f \in Futuros : pc[f] = "append"}
    \cup (IF pcm \in {"append_inicio", "append_fim"} THEN {Principal} ELSE {})

\* The calls of log_status that have returned: those a task has begun, one
\* per response handled by the try body or an except clause and one after
\* the loop, less the one it is in; and those of the main thread.
ChamadasConcluidas(f) ==
    Cardinality({k \in 1..Len(respostas[f]) : respostas[f][k].tipo # "inesperado"})
    + (IF attempt[f] = max_retries THEN 1 ELSE 0)
    - (IF pc[f] \in {"log", "append"} THEN 1 ELSE 0)

RECURSIVE ChamadasDasTarefas(_)
ChamadasDasTarefas(f) ==
    IF f = 0 THEN 0 ELSE ChamadasDasTarefas(f - 1) + ChamadasConcluidas(f)

ChamadasDoPrincipal ==
    (IF pcm \in {"log_inicio", "append_inicio"} THEN 0 ELSE 1)
    + (IF pcm \in {"montagem", "fim"} THEN 1 ELSE 0)

\* C17: at most one thread is inside the append of log_status, and it is
\* the holder of log_lock; the list has one entry per completed call; and
\* the lock is held by no thread that is fetching, sleeping, queued or
\* finished, so that it is free whenever no thread is appending.
C17_ExclusaoMutua ==
    /\ Cardinality(NoAppend) <= 1
    /\ log_lock = Livre <=> NoAppend = {}
    /\ log_lock # Livre => NoAppend = {log_lock}
    /\ \A f \in Futuros :
           pc[f] \in {"fila", "get", "sleep", "fim"} => log_lock # f
    /\ Len(status_messages)
           = ChamadasDoPrincipal + ChamadasDasTarefas(Len(future_to_code))

\* One task is appending while another waits for the lock, having logged
\* nothing yet.
C17_Witness ==
    \E f, g \in Futuros :
        /\ pc[f] = "append"
        /\ pc[g] = "log"
        /\ EventosDe(future_to_code[g]) = <<>>

----------------------------------------------------------------------------
(* C18 *)

\* The fractions reported by the collection loop (line 111): progressos
\* without the initial 0 of st.progress and the closing 1.0 of line 113.
RelatosDoLaco ==
    IF progressos = <<>> THEN <<>>
    ELSE IF pcm \in {"coleta", "abortando", "abortado"} THEN Tail(progressos)
    ELSE SubSeq(progressos, 2, Len(progressos) - 1)

\* C18: the collection loop reports once per task it has seen complete, the
\* k-th report being k/total (so the fraction grows strictly and stays
\* within 1), and when the run has ended the last report is total/total.
C18_ProgressoPorConclusao ==
    /\ Len(RelatosDoLaco) = Cardinality(coletados)
    /\ \A k \in 1..Len(RelatosDoLaco) :
           RelatosDoLaco[k] = <<k, TamanhoFaixa>> /\ k <= TamanhoFaixa
    /\ RunEnded => Len(RelatosDoLaco) = TamanhoFaixa

----------------------------------------------------------------------------
(* C19 *)

\* C19: when the run has ended, every identifier of the range has events in
\* the log, one for each fetch it made (and the final-failure event, if
\* any); its last event states its terminal outcome; and an identifier that
\* ended in final failure has max_retries retry warnings before that event.
C19_LogDeCadaCodigo ==
    RunEnded =>
        \A f \in Futuros :
            LET ev == EventosDe(future_to_code[f])
                n == Len(ev)
            IN  /\ n >= 1
                /\ Cardinality({k \in 1..n : ev[k][2].tipo # "falha"})
                       = Len(respostas[f])
                /\ ev[n][2].tipo \in {"sucesso", "aviso", "info", "falha"}
                /\ ev[n][2].tipo = "falha" =>
                       /\ n = max_retries + 1
                       /\ \A k \in 1..max_retries : ev[k][2].tipo = "rede"

----------------------------------------------------------------------------
(* C20 *)

\* C20: in the sorted log that the assembly displays, the run-start message
\* logged under code 0 is the first entry and the run-completion message
\* logged under code 99999 is the last entry, whatever the range.
C20_InicioPrimeiroFimUltimo ==
    pcm = "fim" =>
        LET log == saida.sorted_logs IN
            /\ Len(log) >= 2
            /\ log[1] = <<CodigoInicio, Mensagem("inicio", TamanhoFaixa, 0, <<>>)>>
            /\ log[Len(log)] = <<CodigoFim, Mensagem("fim", 0, 0, <<>>)>>

====
